---- MODULE Spec2Model ----
(***************************************************************************)
(* Model of the transcription / summarization / translation pipeline of    *)
(* summaree_bot.                                                           *)
(*                                                                         *)
(* The database is the only state shared between requests.  Every request  *)
(* works in its own SQLAlchemy session (one transaction, READ COMMITTED):  *)
(* a read sees the committed rows plus the rows the session itself has     *)
(* added; rows a session adds become visible to other sessions when the    *)
(* session commits and are dropped when it rolls back.  Requests           *)
(* interleave at every await of the coroutine and, across worker           *)
(* processes sharing the database, at every statement; each action below   *)
(* is one such step.                                                       *)
(***************************************************************************)
EXTENDS Integers, Sequences, FiniteSets, TLC

VARIABLES
    \* ---- database (committed rows) ----
    transcripts,     \* table transcript
    summaries,       \* table summary (with its topics)
    nextTid,         \* transcript.id sequence
    nextSid,         \* summary.id sequence
    \* ---- get_summary_msg requests ----
    req,             \* locals and session of each request
    hist,            \* what each request has done so far (observation only)
    started,         \* number of requests received so far
    \* ---- translation cache ----
    translations,    \* table translation (committed rows)
    nextTrId,        \* translation.id sequence
    sess,            \* the sessions that call _translate_topic
    deeplCalls,      \* translator.translate_text calls made, per (topic, language)
    \* ---- chunk planner ----
    plan,            \* one run of split_audio: its input, analysis and split points
    \* ---- transcription fan-out ----
    wh,              \* one run of get_whisper_transcription: its tasks (state, provider
                     \* calls made, result), their completion order and the result
    \* ---- units of work of the command handlers ----
    uow,             \* the account tables and the update being handled: its context,
                     \* its session and what the decorated operations did with it
    \* ---- reading the silence detection output ----
    parse,           \* one call of get_silent_segments: the lines ffmpeg wrote, the
                     \* position of the loop over them and its local variables
    \* ---- fetching the media file ----
    dl,              \* one download in get_summary_msg: the media object, the
                     \* temporary directory and the local file_path
    \* ---- the event loop ----
    loop             \* the coroutines of the event loop, which of them holds the
                     \* thread, and the ffmpeg subprocess

dbVars == <<transcripts, summaries, nextTid, nextSid>>
pipeVars == <<dbVars, req, hist, started>>

trVars == <<translations, nextTrId, sess, deeplCalls>>

splitVars == <<plan>>
whVars == <<wh>>

uowVars == <<uow>>
parseVars == <<parse>>
dlVars == <<dl>>
loopVars == <<loop>>

vars == <<pipeVars, trVars, splitVars, whVars, uowVars, parseVars, dlVars, loopVars>>

nonPipe == <<trVars, splitVars, whVars, uowVars, parseVars, dlVars, loopVars>>
nonTr == <<pipeVars, splitVars, whVars, uowVars, parseVars, dlVars, loopVars>>
nonSplit == <<pipeVars, trVars, whVars, uowVars, parseVars, dlVars, loopVars>>
nonWh == <<pipeVars, trVars, splitVars, uowVars, parseVars, dlVars, loopVars>>
nonUow == <<pipeVars, trVars, splitVars, whVars, parseVars, dlVars, loopVars>>
nonParse == <<pipeVars, trVars, splitVars, whVars, uowVars, dlVars, loopVars>>
nonDl == <<pipeVars, trVars, splitVars, whVars, uowVars, parseVars, loopVars>>
nonLoop == <<pipeVars, trVars, splitVars, whVars, uowVars, parseVars, dlVars>>

-----------------------------------------------------------------------------
\* Bounds of the model

MaxRequests == 2     \* requests received in one run of the model
MaxTopics == 2       \* longest topic list a model response carries

\* the requests in flight at the same time
Req == {"r1", "r2"}

None == "None"

-----------------------------------------------------------------------------
\* Media: provider handles and the bytes behind them

\* file_unique_id values; fA and fB are the same recording uploaded twice
Handles == {"fA", "fB", "fC"}

FileOf(h) == IF h = "fC" THEN <<3, 1, 2>> ELSE <<1, 2, 3>>

\* _extract_file_name: the suffix of the downloaded file
FileSuffix(h) == IF h = "fC" THEN "oga" ELSE "mp3"

\* the suffixes transcribe_file hands to the transcription service as they are
AcceptedSuffixes == {"flac", "mp3", "mp4", "mpeg", "mpga", "m4a", "ogg", "wav", "webm"}

SuffixAccepted(h) == FileSuffix(h) \in AcceptedSuffixes

\* fp.read(8192): blocks of the file; the block size is scaled down
ReadSize == 2

RECURSIVE ReadBlocks(_)
ReadBlocks(bytes) ==
    IF Len(bytes) = 0 THEN <<>>
    ELSE IF Len(bytes) <= ReadSize THEN <<bytes>>
    ELSE <<SubSeq(bytes, 1, ReadSize)>> \o ReadBlocks(SubSeq(bytes, ReadSize + 1, Len(bytes)))

\* m.update(chunk) for every block, then m.hexdigest().  SHA-256 is modelled
\* as an ideal hash: the digest identifies exactly the bytes fed to it.
RECURSIVE Sha256Update(_, _)
Sha256Update(m, blocks) ==
    IF blocks = <<>> THEN m
    ELSE Sha256Update(m \o Head(blocks), Tail(blocks))

Sha256File(bytes) == <<"sha256", Sha256Update(<<>>, ReadBlocks(bytes))>>

-----------------------------------------------------------------------------
\* Tables

\* table language, filled by check_database_languages
Languages == {"en", "de"}

\* select(Language) where regexp_like(name, "^" + language.capitalize())
LanguageByName(name) ==
    IF name = "english" THEN "en"
    ELSE IF name = "german" THEN "de"
    ELSE None

\* select(Language).where(Language.ietf_tag == tag).one_or_none()
LanguageByTag(tag) == IF tag \in Languages THEN tag ELSE None

\* the lookup that finds no row
ByFileUniqueIdMiss(ts, h) == {t \in ts : t.file_unique_id = h /\ t.id = 0}

\* select(Transcript).where(Transcript.file_unique_id == h)
ByFileUniqueId(ts, h) == {t \in ts : t.file_unique_id = h}

\* the lookup comparing against the digest of an exhausted file pointer
BySha256Stale(ts, digest) == {t \in ts : t.sha256_hash = <<"sha256", <<>>>>}

\* select(Transcript).where(Transcript.sha256_hash == digest)
BySha256(ts, digest) == {t \in ts : t.sha256_hash = digest}

\* the table without unique=True on sha256_hash
TranscriptUniqueHandleOnly(ts, t) ==
    \E u \in ts : u.file_unique_id = t.file_unique_id

\* unique=True on transcript.file_unique_id and transcript.sha256_hash
TranscriptUniqueViolation(ts, t) ==
    \/ \E u \in ts : u.file_unique_id = t.file_unique_id
    \/ \E u \in ts : u.sha256_hash = t.sha256_hash

\* the rows the session of request r reads for transcript.summary
SummaryView(r) == summaries \cup req[r].pendingSummary

\* the relationship joined on the Summary's own id
SummaryOfWrongKey(view, tid) == {s \in view : s.id = tid /\ s.transcript_id = 0}

\* transcript.summary: the Summary rows that reference the transcript
SummaryOf(view, tid) == {s \in view : s.transcript_id = tid}

\* transcript.input_language as the session of request r sees it
InputLanguage(r, tid) ==
    IF req[r].pendingLang # None THEN req[r].pendingLang
    ELSE (CHOOSE t \in transcripts : t.id = tid).input_language

-----------------------------------------------------------------------------
\* Service results

\* what get_whisper_transcription can return
WhisperResults ==
    {[text |-> <<>>, language |-> None],
     [text |-> <<"a">>, language |-> None],
     [text |-> <<"a">>, language |-> "english"]}

\* what the chat completion can answer
ModelResponses ==
    {[kind |-> "badjson"], [kind |-> "badschema"]}
    \cup {[kind |-> "valid", language |-> l, ntopics |-> n] :
             l \in {"en", "de"}, n \in 1..MaxTopics}

\* max_retries default of get_openai_chatcompletion
MaxRetries == 2

\* the budget test letting one more attempt through
BudgetExhaustedLate(n_retry) == n_retry > MaxRetries

\* if n_retry == max_retries: raise
BudgetExhausted(n_retry) == n_retry = MaxRetries

\* the enumeration starting at 0
TopicsOfZeroBased(n) == [i \in 1..n |-> [text |-> i, order |-> i - 1]]

\* [Topic(text=text, order=i) for i, text in enumerate(topics, start=1)];
\* the i-th text of the model output is written i
TopicsOf(n) == [i \in 1..n |-> [text |-> i, order |-> i]]

InitialMessages == <<"system", "user">>
RepairMessages == <<"assistant", "corrective">>

-----------------------------------------------------------------------------
\* Requests

\* locals of get_summary_msg / transcribe_file / _summarize
\*   pc              position in get_summary_msg
\*   handle          file_unique_id of the media
\*   sha256_hash     digest computed by transcribe_file
\*   whisper         WhisperTranscription awaited by transcribe_file
\*   transcript      id of the Transcript held (0 = none)
\*   summary         id of the Summary _summarize returned (0 = none)
\*   pendingSummary  Summary rows added to the session, not yet committed
\*   pendingLang     uncommitted Transcript.input_language assignment
\*   messages        conversation handed to get_openai_chatcompletion
\*   n_retry         n_retry of the running get_openai_chatcompletion
\*   summary_data    what get_openai_chatcompletion returned (a set: none or one)
\*   err             exception that ended the request
NewRequest ==
    [pc |-> "idle", handle |-> None, sha256_hash |-> None, whisper |-> None,
     transcript |-> 0, summary |-> 0, pendingSummary |-> {}, pendingLang |-> None,
     messages |-> <<>>, n_retry |-> 0, summary_data |-> {}, err |-> None]

\* observations
\*   snap            transcript ids committed when the request started
\*   downloads       downloads of the media started
\*   hashLookup      outcome of the sha256 index lookup ("none" = not made)
\*   transcodeCalls  transcode_ffmpeg runs
\*   whisperCalls    get_whisper_transcription runs
\*   responses       kinds of the model responses received, in order
\*   created         id of the Transcript row the request inserted (0 = none)
NewHistory ==
    [snap |-> {}, downloads |-> 0, hashLookup |-> "none", transcodeCalls |-> 0, whisperCalls |-> 0,
     responses |-> <<>>, created |-> 0]

InitPipe ==
    /\ transcripts = {}
    /\ summaries = {}
    /\ nextTid = 1
    /\ nextSid = 1
    /\ req = [r \in Req |-> NewRequest]
    /\ hist = [r \in Req |-> NewHistory]
    /\ started = 0

\* the rollback that takes the request's Transcript with it
AfterRollbackWithoutTranscript(ts, tid) == {t \in ts : t.id # tid}

\* the transcript table after the rollback of get_summary_msg's session: the
\* Transcript was committed by transcribe_file's own Session.begin() block
AfterRollback(ts, tid) == ts

\* an exception leaves get_summary_msg: Session.begin() rolls the session back
\* and the locals go out of scope
Raised(q, e) ==
    [q EXCEPT !.pc = "failed", !.err = e, !.pendingSummary = {}, !.pendingLang = None,
              !.sha256_hash = None, !.whisper = None, !.messages = <<>>, !.n_retry = 0,
              !.summary_data = {}]

\* get_summary_msg up to the first await: _check_existing_transcript
Start(r, h) ==
    /\ req[r].pc \in {"idle", "done", "failed"}
    /\ started < MaxRequests
    /\ started' = started + 1
    /\ LET hit == ByFileUniqueId(transcripts, h) IN
         req' = [req EXCEPT ![r] =
                   IF hit # {}
                   THEN [NewRequest EXCEPT !.handle = h, !.pc = "summarize",
                                           !.transcript = (CHOOSE t \in hit : TRUE).id]
                   ELSE [NewRequest EXCEPT !.handle = h, !.pc = "download"]]
    /\ hist' = [hist EXCEPT ![r] = [NewHistory EXCEPT !.snap = {t.id : t \in transcripts}]]
    /\ UNCHANGED dbVars
    /\ UNCHANGED nonPipe

\* await file.download_to_drive(file_path) / download_large_file
DownloadOk(r) ==
    /\ req[r].pc = "download"
    /\ req' = [req EXCEPT ![r].pc = "hash"]
    /\ hist' = [hist EXCEPT ![r].downloads = @ + 1]
    /\ UNCHANGED <<dbVars, started>>
    /\ UNCHANGED nonPipe

DownloadFail(r) ==
    /\ req[r].pc = "download"
    /\ req' = [req EXCEPT ![r] = Raised(@, "NetworkError")]
    /\ hist' = [hist EXCEPT ![r].downloads = @ + 1]
    /\ UNCHANGED <<dbVars, started>>
    /\ UNCHANGED nonPipe

\* transcribe_file: hash the file, look the hash up
HashLookup(r) ==
    /\ req[r].pc = "hash"
    /\ LET digest == Sha256File(FileOf(req[r].handle))
           hit == BySha256(transcripts, digest) IN
         /\ req' = [req EXCEPT ![r] =
                      IF hit # {}
                      THEN [@ EXCEPT !.pc = "summarize",
                                     !.transcript = (CHOOSE t \in hit : TRUE).id]
                      ELSE [@ EXCEPT !.pc = "transcode", !.sha256_hash = digest]]
         /\ hist' = [hist EXCEPT ![r].hashLookup = IF hit # {} THEN "hit" ELSE "miss"]
    /\ UNCHANGED <<dbVars, started>>
    /\ UNCHANGED nonPipe

\* transcribe_file: a file with an accepted suffix is passed through
TranscodeSkip(r) ==
    /\ req[r].pc = "transcode"
    /\ SuffixAccepted(req[r].handle)
    /\ req' = [req EXCEPT ![r].pc = "whisper"]
    /\ UNCHANGED <<dbVars, hist, started>>
    /\ UNCHANGED nonPipe

\* transcribe_file: transcode_ffmpeg for any other suffix
TranscodeOk(r) ==
    /\ req[r].pc = "transcode"
    /\ ~SuffixAccepted(req[r].handle)
    /\ req' = [req EXCEPT ![r].pc = "whisper"]
    /\ hist' = [hist EXCEPT ![r].transcodeCalls = @ + 1]
    /\ UNCHANGED <<dbVars, started>>
    /\ UNCHANGED nonPipe

\* transcode_ffmpeg: non-zero exit of ffmpeg
TranscodeFail(r) ==
    /\ req[r].pc = "transcode"
    /\ ~SuffixAccepted(req[r].handle)
    /\ req' = [req EXCEPT ![r] = Raised(@, "ValueError")]
    /\ hist' = [hist EXCEPT ![r].transcodeCalls = @ + 1]
    /\ UNCHANGED <<dbVars, started>>
    /\ UNCHANGED nonPipe

\* transcribe_file: await get_whisper_transcription(supported_file_path)
WhisperStart(r) ==
    /\ req[r].pc = "whisper"
    /\ req' = [req EXCEPT ![r].pc = "awaitWhisper"]
    /\ hist' = [hist EXCEPT ![r].whisperCalls = @ + 1]
    /\ UNCHANGED <<dbVars, started>>
    /\ UNCHANGED nonPipe

WhisperOk(r, res) ==
    /\ req[r].pc = "awaitWhisper"
    /\ req' = [req EXCEPT ![r].pc = "insert", ![r].whisper = res]
    /\ UNCHANGED <<dbVars, hist, started>>
    /\ UNCHANGED nonPipe

WhisperFail(r) ==
    /\ req[r].pc = "awaitWhisper"
    /\ req' = [req EXCEPT ![r] = Raised(@, "BadRequestError")]
    /\ UNCHANGED <<dbVars, hist, started>>
    /\ UNCHANGED nonPipe

\* transcribe_file: the second Session.begin() block (add, flush, commit)
InsertTranscript(r) ==
    /\ req[r].pc = "insert"
    /\ LET row == [id |-> nextTid,
                   file_unique_id |-> req[r].handle,
                   sha256_hash |-> req[r].sha256_hash,
                   result |-> req[r].whisper.text,
                   input_language |->
                       IF req[r].whisper.language # None
                       THEN LanguageByName(req[r].whisper.language)
                       ELSE None] IN
         IF TranscriptUniqueViolation(transcripts, row)
         THEN /\ req' = [req EXCEPT ![r] = Raised(@, "IntegrityError")]
              /\ UNCHANGED <<transcripts, nextTid, hist>>
         ELSE /\ transcripts' = transcripts \cup {row}
              /\ nextTid' = nextTid + 1
              /\ req' = [req EXCEPT ![r].pc = "summarize", ![r].transcript = row.id,
                                    ![r].sha256_hash = None, ![r].whisper = None]
              /\ hist' = [hist EXCEPT ![r].created = row.id]
    /\ UNCHANGED <<summaries, nextSid, started>>
    /\ UNCHANGED nonPipe

\* _summarize up to the first chat completion
SummarizeCheck(r) ==
    /\ req[r].pc = "summarize"
    /\ LET existing == SummaryOf(SummaryView(r), req[r].transcript) IN
         IF existing # {}
         THEN \E s \in existing :
                 req' = [req EXCEPT ![r].pc = "respond", ![r].summary = s.id]
         ELSE req' = [req EXCEPT ![r].pc = "llm", ![r].messages = InitialMessages,
                                 ![r].n_retry = 1]
    /\ UNCHANGED <<dbVars, hist, started>>
    /\ UNCHANGED nonPipe

\* one client.chat.completions.create of get_openai_chatcompletion and what
\* follows it: the retry, the raise, or the rest of _summarize
LlmCall(r, resp) ==
    /\ req[r].pc = "llm"
    /\ hist' = [hist EXCEPT ![r].responses = Append(@, resp.kind)]
    /\ IF resp.kind = "badjson"
       THEN /\ req' = [req EXCEPT ![r] =
                         IF BudgetExhausted(@.n_retry)
                         THEN Raised(@, "JSONDecodeError")
                         ELSE [@ EXCEPT !.messages = @ \o RepairMessages,
                                        !.n_retry = @ + 1]]
            /\ transcripts' = IF BudgetExhausted(req[r].n_retry)
                              THEN AfterRollback(transcripts, req[r].transcript)
                              ELSE transcripts
            /\ UNCHANGED nextSid
       ELSE IF resp.kind = "badschema"
       THEN /\ req' = [req EXCEPT ![r] = Raised(@, "KeyError")]
            /\ transcripts' = AfterRollback(transcripts, req[r].transcript)
            /\ UNCHANGED nextSid
       ELSE /\ req' = [req EXCEPT ![r] =
                         [@ EXCEPT !.pc = "respond",
                                   !.summary = nextSid,
                                   !.messages = <<>>,
                                   !.n_retry = 0,
                                   !.summary_data =
                                       {[language |-> resp.language,
                                         ntopics |-> resp.ntopics]},
                                   !.pendingLang =
                                       IF InputLanguage(r, req[r].transcript) = None
                                       THEN LanguageByTag(resp.language)
                                       ELSE @,
                                   !.pendingSummary =
                                       @ \cup {[id |-> nextSid,
                                                transcript_id |-> req[r].transcript,
                                                topics |-> TopicsOf(resp.ntopics)]}]]
            /\ nextSid' = nextSid + 1
            /\ UNCHANGED transcripts
    /\ UNCHANGED <<summaries, nextTid, started>>
    /\ UNCHANGED nonPipe

\* get_summary_msg returns: Session.begin() commits the session
Finish(r) ==
    /\ req[r].pc = "respond"
    /\ summaries' = summaries \cup req[r].pendingSummary
    /\ transcripts' =
         IF req[r].pendingLang = None THEN transcripts
         ELSE {IF t.id = req[r].transcript
               THEN [t EXCEPT !.input_language = req[r].pendingLang]
               ELSE t : t \in transcripts}
    /\ req' = [req EXCEPT ![r].pc = "done", ![r].pendingSummary = {},
                          ![r].pendingLang = None, ![r].summary_data = {}]
    /\ UNCHANGED <<nextTid, nextSid, hist, started>>
    /\ UNCHANGED nonPipe

\* an error after _summarize (translation or chat service): rollback
FinishFail(r) ==
    /\ req[r].pc = "respond"
    /\ req' = [req EXCEPT ![r] = Raised(@, "TelegramError")]
    /\ transcripts' = AfterRollback(transcripts, req[r].transcript)
    /\ UNCHANGED <<summaries, nextTid, nextSid, hist, started>>
    /\ UNCHANGED nonPipe

NextPipe ==
    \E r \in Req :
        \/ \E h \in Handles : Start(r, h)
        \/ DownloadOk(r)
        \/ DownloadFail(r)
        \/ HashLookup(r)
        \/ TranscodeSkip(r)
        \/ TranscodeOk(r)
        \/ TranscodeFail(r)
        \/ WhisperStart(r)
        \/ \E res \in WhisperResults : WhisperOk(r, res)
        \/ WhisperFail(r)
        \/ InsertTranscript(r)
        \/ SummarizeCheck(r)
        \/ \E resp \in ModelResponses : LlmCall(r, resp)
        \/ Finish(r)
        \/ FinishFail(r)

-----------------------------------------------------------------------------
\* Translation cache (_translate_topic)

MaxTranslateCalls == 3      \* _translate_topic calls in one run of the model

Sess == {"s1", "s2"}
Topics == {"topic1", "topic2"}
TargetLangs == {"DE"}

\* translator.translate_text is a black box: what it answers is not fixed
DeeplTexts == {"x", "y"}

\* a session: the rows it has added and the row its last call returned
NewSession == [pc |-> "idle", pending |-> {}, returned |-> None, err |-> None]

InitTr ==
    /\ translations = {}
    /\ nextTrId = 1
    /\ sess = [s \in Sess |-> NewSession]
    /\ deeplCalls = [p \in Topics \X TargetLangs |-> 0]

\* select(TopicTranslation).where(target_lang == ...).where(topic == ...)
TranslationsOf(view, topic, lang) ==
    {t \in view : t.topic = topic /\ t.target_lang = lang}

RECURSIVE SumCalls(_, _)
SumCalls(calls, pairs) ==
    IF pairs = {} THEN 0
    ELSE LET p == CHOOSE q \in pairs : TRUE IN calls[p] + SumCalls(calls, pairs \ {p})

TotalDeeplCalls == SumCalls(deeplCalls, Topics \X TargetLangs)

\* session_context: with Session.begin() as session
Begin(s) ==
    /\ sess[s].pc = "idle"
    /\ sess' = [sess EXCEPT ![s].pc = "open"]
    /\ UNCHANGED <<translations, nextTrId, deeplCalls>>
    /\ UNCHANGED nonTr

\* _translate_topic, cache hit: the row the session can see is returned
TranslateHit(s, topic, lang) ==
    /\ sess[s].pc = "open"
    /\ LET found == TranslationsOf(translations \cup sess[s].pending, topic, lang) IN
         /\ Cardinality(found) = 1
         /\ sess' = [sess EXCEPT ![s].returned = CHOOSE t \in found : TRUE]
    /\ UNCHANGED <<translations, nextTrId, deeplCalls>>
    /\ UNCHANGED nonTr

\* _translate_topic, cache miss: translate, add the row to the session
TranslateMiss(s, topic, lang, text) ==
    /\ sess[s].pc = "open"
    /\ TotalDeeplCalls < MaxTranslateCalls
    /\ TranslationsOf(translations \cup sess[s].pending, topic, lang) = {}
    /\ LET row == [id |-> nextTrId, topic |-> topic, target_lang |-> lang,
                   target_text |-> text] IN
         sess' = [sess EXCEPT ![s].pending = @ \cup {row}, ![s].returned = row]
    /\ nextTrId' = nextTrId + 1
    /\ deeplCalls' = [deeplCalls EXCEPT ![<<topic, lang>>] = @ + 1]
    /\ UNCHANGED translations
    /\ UNCHANGED nonTr

\* _translate_topic: one_or_none() on more than one row
TranslateMultiple(s, topic, lang) ==
    /\ sess[s].pc = "open"
    /\ Cardinality(TranslationsOf(translations \cup sess[s].pending, topic, lang)) > 1
    /\ sess' = [sess EXCEPT ![s].pc = "failed", ![s].pending = {},
                            ![s].err = "MultipleResultsFound"]
    /\ UNCHANGED <<translations, nextTrId, deeplCalls>>
    /\ UNCHANGED nonTr

\* leaving Session.begin() normally: commit.  The translation table carries
\* no unique constraint, so the INSERTs always succeed.
Commit(s) ==
    /\ sess[s].pc = "open"
    /\ translations' = translations \cup sess[s].pending
    /\ sess' = [sess EXCEPT ![s].pc = "committed", ![s].pending = {}]
    /\ UNCHANGED <<nextTrId, deeplCalls>>
    /\ UNCHANGED nonTr

\* leaving Session.begin() with an exception of a later step: rollback
Rollback(s) ==
    /\ sess[s].pc = "open"
    /\ sess' = [sess EXCEPT ![s].pc = "failed", ![s].pending = {}, ![s].err = "Exception"]
    /\ UNCHANGED <<translations, nextTrId, deeplCalls>>
    /\ UNCHANGED nonTr

\* the next unit of work of the same worker
Reopen(s) ==
    /\ sess[s].pc \in {"committed", "failed"}
    /\ sess' = [sess EXCEPT ![s] = NewSession]
    /\ UNCHANGED <<translations, nextTrId, deeplCalls>>
    /\ UNCHANGED nonTr

NextTr ==
    \E s \in Sess :
        \/ Begin(s)
        \/ \E topic \in Topics, lang \in TargetLangs : TranslateHit(s, topic, lang)
        \/ \E topic \in Topics, lang \in TargetLangs, text \in DeeplTexts :
               TranslateMiss(s, topic, lang, text)
        \/ \E topic \in Topics, lang \in TargetLangs : TranslateMultiple(s, topic, lang)
        \/ Commit(s)
        \/ Rollback(s)
        \/ Reopen(s)

-----------------------------------------------------------------------------
\* Chunk planner (split_audio)

MaxSilences == 3     \* silence intervals the detector reports at most

\* max_size_mb of split_audio as get_whisper_transcription passes it
MaxSizeMb == 24

\* Times are rationals <<numerator, denominator>> in seconds: the midpoints
\* of silences are halves, the even split points are n-ths.
Rat(n, d) == <<n, d>>
RatSub(a, b) == <<a[1] * b[2] - b[1] * a[2], a[2] * b[2]>>

\* input files larger than 24 MiB (st_size in bytes)
FileSizes == {30 * 1048576, 46 * 1048576, 48 * 1048576, 50 * 1048576}

\* Python integers are unbounded: st_size * 1024 * 1024 is kept as the two
\* digits <<high, low>> of a number written in base 1024 * 1024
BigBase == 1024 * 1024

BigOf(n) == <<n \div BigBase, n % BigBase>>
BigTimesBase(n) == <<n, 0>>
BigMod(x, d) == ((x[1] % d) * BigBase + x[2]) % d
BigDiv(x, d) == <<x[1] \div d, ((x[1] % d) * BigBase + x[2]) \div d>>
BigAdd(x, k) == <<x[1] + ((x[2] + k) \div BigBase), (x[2] + k) % BigBase>>
BigLess(x, y) == x[1] < y[1] \/ (x[1] = y[1] /\ x[2] < y[2])

\* min_splits as split_audio derives it from the file size
min_splits(st_size, max_size_mb) ==
    LET file_size == BigTimesBase(st_size) IN
    IF BigMod(file_size, max_size_mb) # 0
    THEN BigAdd(BigDiv(file_size, max_size_mb), 1)
    ELSE BigDiv(file_size, max_size_mb)

\* the defaults of get_silent_segments' parameters
DefaultMinSilenceLen == 500
DefaultMinSplits == 2

\* if (len(silent_segments) < min_splits - 1) and min_silence_len % 10 == 0
RetryDetection(silent_segments, call) ==
    /\ BigLess(BigAdd(BigOf(Len(silent_segments)), 1), call.min_splits)
    /\ call.min_silence_len % 10 = 0

\* bitrate of the header line, in kb/s
Bitrates == {128, 192}

\* the Duration ffmpeg prints for a file of that size and bitrate (whole seconds)
DurationOf(st_size, bitrate) == (st_size * 8) \div (bitrate * 1000)

\* where the detector may report a silence: (silence_start, silence_end)
SilenceCandidates ==
    {<<400, 402>>, <<1000, 1002>>, <<1400, 1402>>, <<2000, 2002>>, <<2600, 2602>>,
     <<3000, 3002>>}

RECURSIVE InOrder(_)
InOrder(segs) ==
    IF segs = {} THEN <<>>
    ELSE LET first == CHOOSE x \in segs : \A y \in segs : x[1] <= y[1]
         IN <<first>> \o InOrder(segs \ {first})

\* analysis dicts get_silent_segments can return for the file
Analyses(st_size) ==
    UNION {{[bitrate |-> b, total_seconds |-> DurationOf(st_size, b),
             silent_segments |-> InOrder(S)] :
               S \in {X \in SUBSET SilenceCandidates :
                        /\ Cardinality(X) <= MaxSilences
                        /\ \A x \in X : x[2] <= DurationOf(st_size, b)}} :
           b \in Bitrates}

\* analysis["silent_segments"].mean(axis=1)
Midpoints(silent_segments) ==
    [i \in 1..Len(silent_segments) |-> Rat(silent_segments[i][1] + silent_segments[i][2], 2)]

\* (length) * bitrate / 1024 / 8 > max_size_mb, length a rational of seconds
OverBudgetMb(length, bitrate, max_size_mb) ==
    length[1] * bitrate > max_size_mb * 1024 * 8 * length[2]

\* get_sizes: length * bitrate / 8 for every segment end, in kB
RECURSIVE get_sizes(_, _, _)
get_sizes(segments, current_pos, bitrate) ==
    IF segments = <<>> THEN <<>>
    ELSE <<[length |-> RatSub(Head(segments), current_pos), bitrate |-> bitrate]>>
         \o get_sizes(Tail(segments), Head(segments), bitrate)

\* size > max_size_mb * 1024 for a size of get_sizes
SizeOverKb(size, max_size_mb) ==
    size.length[1] * size.bitrate > max_size_mb * 1024 * 8 * size.length[2]

\* n_chunks rounded down
NChunksFloor(st_size, max_size_mb) == st_size \div (max_size_mb * 1024 * 1024)

\* n_chunks of get_even_splits
NChunks(st_size, max_size_mb) ==
    IF st_size % (max_size_mb * 1024 * 1024) # 0
    THEN (st_size \div (max_size_mb * 1024 * 1024)) + 1
    ELSE st_size \div (max_size_mb * 1024 * 1024)

\* np.linspace(0, int(seconds_total) + 1, int(n_chunks + 1))[1:-1]
get_even_splits(st_size, analysis, max_size_mb) ==
    LET n == NChunks(st_size, max_size_mb) IN
    [k \in 1..(n - 1) |-> Rat(k * (analysis.total_seconds + 1), n)]

\* the for loop of split_audio over pairwise(splits), from pair i on
RECURSIVE WalkSplits(_, _, _, _, _, _, _)
WalkSplits(splits, i, current_start, segments, st_size, analysis, max_size_mb) ==
    IF i >= Len(splits) THEN segments
    ELSE IF OverBudgetMb(RatSub(splits[i], current_start), analysis.bitrate, max_size_mb)
    THEN get_even_splits(st_size, analysis, max_size_mb)
    ELSE IF OverBudgetMb(RatSub(splits[i + 1], current_start), analysis.bitrate, max_size_mb)
    THEN WalkSplits(splits, i + 1, splits[i], Append(segments, splits[i]),
                    st_size, analysis, max_size_mb)
    ELSE WalkSplits(splits, i + 1, current_start, segments, st_size, analysis, max_size_mb)

\* split_audio without its "if not len(segments)" block
split_audio_no_fallback(st_size, analysis, max_size_mb) ==
    IF Len(analysis.silent_segments) > 0
    THEN WalkSplits(Midpoints(analysis.silent_segments), 1, Rat(0, 1), <<>>,
                    st_size, analysis, max_size_mb)
    ELSE <<>>

\* split_audio after get_silent_segments: the segments handed to split_audio_ffmpeg
split_audio(st_size, analysis, max_size_mb) ==
    LET walked ==
            IF Len(analysis.silent_segments) > 0
            THEN WalkSplits(Midpoints(analysis.silent_segments), 1, Rat(0, 1), <<>>,
                            st_size, analysis, max_size_mb)
            ELSE <<>>
        sizes == get_sizes(walked, Rat(0, 1), analysis.bitrate)
        checked ==
            IF /\ Len(analysis.silent_segments) > 0
               /\ \E j \in 1..Len(sizes) : SizeOverKb(sizes[j], max_size_mb)
            THEN get_even_splits(st_size, analysis, max_size_mb)
            ELSE walked
    IN IF Len(checked) = 0 THEN get_even_splits(st_size, analysis, max_size_mb)
       ELSE checked

MaxRuns == 2         \* runs of split_audio in one run of the model

\* plan:
\*   run        number of the run of split_audio
\*   prev       input and result of the last run that exported (a set: none or one)
\*   st_size    input_file.stat().st_size
\*   bitrate    bitrate of the file, as the ffmpeg header will report it
\*   min_splits min_splits of split_audio
\*   call       parameters of the running get_silent_segments call
\*   analysis   what get_silent_segments returned
\*   segments   split points handed to split_audio_ffmpeg
\*   split_paths  the chunk files split_audio returns, by their number
InitSplit == plan = [pc |-> "idle", run |-> 1, prev |-> {}]

\* split_audio: input_file.stat(), min_splits, the call of get_silent_segments
StatFile(st_size, bitrate) ==
    /\ plan.pc = "idle"
    /\ plan' = [pc |-> "detect", run |-> plan.run, prev |-> plan.prev,
                st_size |-> st_size, bitrate |-> bitrate,
                min_splits |-> min_splits(st_size, MaxSizeMb),
                call |-> [min_silence_len |-> DefaultMinSilenceLen,
                          noise_thresh |-> Rat(1, 1000),
                          min_splits |-> min_splits(st_size, MaxSizeMb)]]
    /\ UNCHANGED nonSplit

\* get_silent_segments: one ffmpeg silencedetect run and the parse of its
\* output, then either the recursive call with a tenth of the silence length,
\* ten times the noise threshold and the default min_splits, or the return
Analyze(analysis) ==
    /\ plan.pc = "detect"
    /\ analysis.bitrate = plan.bitrate
    /\ analysis.total_seconds = DurationOf(plan.st_size, plan.bitrate)
    /\ plan' =
         IF RetryDetection(analysis.silent_segments, plan.call)
         THEN [plan EXCEPT !.call =
                  [min_silence_len |-> plan.call.min_silence_len \div 10,
                   noise_thresh |-> Rat(plan.call.noise_thresh[1] * 10,
                                        plan.call.noise_thresh[2]),
                   min_splits |-> BigOf(DefaultMinSplits)]]
         ELSE [pc |-> "analyzed", run |-> plan.run, prev |-> plan.prev,
               st_size |-> plan.st_size, bitrate |-> plan.bitrate,
               min_splits |-> plan.min_splits, analysis |-> analysis]
    /\ UNCHANGED nonSplit

\* get_silent_segments: ffmpeg exits non-zero, ValueError
AnalyzeFails ==
    /\ plan.pc = "detect"
    /\ plan' = [pc |-> "failed", run |-> plan.run, prev |-> plan.prev,
                err |-> "Getting silent segments failed"]
    /\ UNCHANGED nonSplit

\* glob(pathname="*" + suffix, root_dir=output_dir) over the files 000, 001,
\* ... ffmpeg wrote (written 0, 1, ...): every file once, in the order in
\* which the directory lists them
Glob(listing) ==
    /\ \A i \in 1..Len(listing), j \in 1..Len(listing) : listing[i] = listing[j] => i = j
    /\ \A i \in 1..Len(listing) : listing[i] \in 0..(Len(listing) - 1)

\* the listings of a directory of up to MaxSilences + 1 segment files
Listings ==
    UNION {{l \in [1..k -> 0..(k - 1)] : Glob(l)} : k \in 1..(MaxSilences + 1)}

\* split_audio: the plan, split_audio_ffmpeg writing one file per segment,
\* and the list of paths it returns
PlanAndExport(listing) ==
    /\ plan.pc = "analyzed"
    /\ Len(listing) = Len(split_audio(plan.st_size, plan.analysis, MaxSizeMb)) + 1
    /\ Glob(listing)
    /\ plan' = [pc |-> "exported", run |-> plan.run, prev |-> plan.prev,
                st_size |-> plan.st_size, bitrate |-> plan.bitrate,
                min_splits |-> plan.min_splits, analysis |-> plan.analysis,
                segments |-> split_audio(plan.st_size, plan.analysis, MaxSizeMb),
                split_paths |-> listing]
    /\ UNCHANGED nonSplit

\* split_audio_ffmpeg: ffmpeg exits non-zero, ValueError
ExportFails ==
    /\ plan.pc = "analyzed"
    /\ plan' = [pc |-> "failed", run |-> plan.run, prev |-> plan.prev,
                err |-> "Splitting failed"]
    /\ UNCHANGED nonSplit

\* get_whisper_transcription calls split_audio for the next large file
NextFile ==
    /\ plan.pc \in {"exported", "failed"}
    /\ plan.run < MaxRuns
    /\ plan' = [pc |-> "idle", run |-> plan.run + 1,
                prev |-> IF plan.pc = "exported"
                         THEN {[st_size |-> plan.st_size,
                                total_seconds |-> plan.analysis.total_seconds,
                                silences |-> Len(plan.analysis.silent_segments),
                                segments |-> plan.segments]}
                         ELSE plan.prev]
    /\ UNCHANGED nonSplit

\* what a silencedetect run can give, over all files
AllAnalyses == UNION {Analyses(st_size) : st_size \in FileSizes}

NextSplit ==
    \/ \E st_size \in FileSizes, bitrate \in Bitrates : StatFile(st_size, bitrate)
    \/ \E analysis \in AllAnalyses : Analyze(analysis)
    \/ AnalyzeFails
    \/ \E listing \in Listings : PlanAndExport(listing)
    \/ ExportFails
    \/ NextFile

-----------------------------------------------------------------------------
\* Transcription fan-out (get_whisper_transcription)

MaxChunks == 3       \* longest chunk list split_audio returns

\* what the transcription service answers for a chunk: text and language
ChunkResults ==
    {[text |-> <<"a">>, language |-> "english"],
     [text |-> <<"b">>, language |-> "german"],
     [text |-> <<>>, language |-> None]}

\* "\n".join(texts)
RECURSIVE JoinNewline(_)
JoinNewline(texts) ==
    IF Len(texts) = 0 THEN <<>>
    ELSE IF Len(texts) = 1 THEN texts[1]
    ELSE texts[1] \o <<"\n">> \o JoinNewline(Tail(texts))

\* Counter(languages).most_common(1)[0][0]: the first key of the highest count
CountOf(languages, l) == Cardinality({i \in 1..Len(languages) : languages[i] = l})

\* the tie between equal counts going to the key seen last
most_common_last_seen(languages) ==
    IF Len(languages) = 0 THEN None
    ELSE LET best == CHOOSE i \in 1..Len(languages) :
                        /\ \A j \in 1..Len(languages) :
                              CountOf(languages, languages[j]) <= CountOf(languages, languages[i])
                        /\ \A j \in (i + 1)..Len(languages) :
                              CountOf(languages, languages[j]) < CountOf(languages, languages[i])
         IN languages[best]

most_common(languages) ==
    IF Len(languages) = 0 THEN None
    ELSE LET best == CHOOSE i \in 1..Len(languages) :
                        /\ \A j \in 1..Len(languages) :
                              CountOf(languages, languages[j]) <= CountOf(languages, languages[i])
                        /\ \A j \in 1..(i - 1) :
                              CountOf(languages, languages[j]) < CountOf(languages, languages[i])
         IN languages[best]

\* the tasks in the order in which they finished
TasksAsCompleted(w) == w.completed

\* for task in tasks: the list the tasks were appended to at creation
TasksInOrder(w) == [i \in 1..w.n |-> i]

\* sizes of the normalized file handed to get_whisper_transcription (bytes)
NormalizedSizes == {1024 * 1024, 24 * 1024 * 1024, 24 * 1024 * 1024 + 1, 30 * 1024 * 1024}

\* the size test taking files of exactly 24 MiB as well
LargeFileFrom24(st_size) == st_size >= MaxSizeMb * 1024 * 1024

\* if file_path.stat().st_size > 24 * 1024 * 1024
LargeFile(st_size) == st_size > MaxSizeMb * 1024 * 1024

\* the try block of get_whisper_transcription_async covers the first call only
RetryAllowed(state) == state = "running"

\* a failing task that leaves its siblings alone
LeaveSiblings(task, i) == [task EXCEPT ![i] = "failed"]

\* asyncio.TaskGroup: the failing task aborts the group, which cancels every
\* task that is not done
CancelSiblings(task, i) ==
    [j \in DOMAIN task |->
        IF j = i THEN "failed"
        ELSE IF task[j] = "done" THEN "done"
        ELSE "cancelled"]

\* wh:
\*   st_size    size of the normalized file
\*   split      split_audio (silence detection, export) was run
\*   n          len(file_paths)
\*   task       state of each task of the TaskGroup
\*   calls      transcriptions.create calls made for each chunk
\*   results    what the service answered for each chunk
\*   completed  the chunks in the order in which their tasks finished
\*   result     WhisperTranscription returned
\*   err        exception that left get_whisper_transcription
\*   persisted  Transcript rows transcribe_file inserted
InitWh == wh = [pc |-> "idle"]

\* get_whisper_transcription up to the end of the TaskGroup's for loop: the
\* size test, split_audio for a large file, one task per entry of file_paths
CreateTasks(st_size, n) ==
    /\ wh.pc = "idle"
    /\ IF LargeFile(st_size) THEN n >= 2 ELSE n = 1
    /\ wh' = [pc |-> "gather", st_size |-> st_size, split |-> LargeFile(st_size),
              n |-> n,
              task |-> [i \in 1..n |-> "running"],
              calls |-> [i \in 1..n |-> 1],
              results |-> [i \in 1..n |-> None],
              completed |-> <<>>,
              result |-> None,
              err |-> None,
              persisted |-> {}]
    /\ UNCHANGED nonWh

\* split_audio raises ValueError (silence detection or export failed)
SplitFails(st_size) ==
    /\ wh.pc = "idle"
    /\ LargeFile(st_size)
    /\ wh' = [pc |-> "failed", st_size |-> st_size, split |-> TRUE,
              n |-> 0, task |-> <<>>, calls |-> <<>>, results |-> <<>>,
              completed |-> <<>>, result |-> None, err |-> "ValueError",
              persisted |-> {}]
    /\ UNCHANGED nonWh

\* get_whisper_transcription_async: the first transcriptions.create returns
CallOk(i, res) ==
    /\ wh.pc = "gather"
    /\ i \in 1..wh.n
    /\ wh.task[i] = "running"
    /\ wh' = [wh EXCEPT !.task[i] = "done", !.results[i] = res,
                        !.completed = Append(@, i)]
    /\ UNCHANGED nonWh

\* get_whisper_transcription_async: BadRequestError, transcode_ffmpeg, second call
CallBadRequest(i) ==
    /\ wh.pc = "gather"
    /\ i \in 1..wh.n
    /\ RetryAllowed(wh.task[i])
    /\ wh' = [wh EXCEPT !.task[i] = "retry", !.calls[i] = @ + 1]
    /\ UNCHANGED nonWh

RetryOk(i, res) ==
    /\ wh.pc = "gather"
    /\ i \in 1..wh.n
    /\ wh.task[i] = "retry"
    /\ wh' = [wh EXCEPT !.task[i] = "done", !.results[i] = res,
                        !.completed = Append(@, i)]
    /\ UNCHANGED nonWh

\* the task raises: an error other than BadRequestError from the first call,
\* or a failed transcode or any error from the second call.  The TaskGroup
\* cancels the unfinished siblings and raises out of get_whisper_transcription
\* and, uncaught, out of transcribe_file.
TaskRaises(i) ==
    /\ wh.pc = "gather"
    /\ i \in 1..wh.n
    /\ wh.task[i] \in {"running", "retry"}
    /\ wh' = [wh EXCEPT !.pc = "failed",
                        !.task = CancelSiblings(wh.task, i),
                        !.err = "ExceptionGroup"]
    /\ UNCHANGED nonWh

\* after the TaskGroup block: collect languages and texts, build the result
Collect ==
    /\ wh.pc = "gather"
    /\ \A i \in 1..wh.n : wh.task[i] = "done"
    /\ LET order == TasksInOrder(wh)
           languages == [k \in 1..Len(order) |-> wh.results[order[k]].language]
           texts == [k \in 1..Len(order) |-> wh.results[order[k]].text]
       IN wh' = [wh EXCEPT !.pc = "returned",
                           !.result = [text |-> JoinNewline(texts),
                                       language |-> most_common(languages)]]
    /\ UNCHANGED nonWh

\* transcribe_file after the await: the Transcript is added and committed
Persist ==
    /\ wh.pc = "returned"
    /\ wh' = [wh EXCEPT !.pc = "persisted",
                        !.persisted =
                            {[result |-> wh.result.text,
                              input_language |->
                                  IF wh.result.language # None
                                  THEN LanguageByName(wh.result.language)
                                  ELSE None]}]
    /\ UNCHANGED nonWh

NextWh ==
    \/ \E st_size \in NormalizedSizes, n \in 1..MaxChunks : CreateTasks(st_size, n)
    \/ \E st_size \in NormalizedSizes : SplitFails(st_size)
    \/ \E i \in 1..MaxChunks, res \in ChunkResults : CallOk(i, res)
    \/ \E i \in 1..MaxChunks : CallBadRequest(i)
    \/ \E i \in 1..MaxChunks, res \in ChunkResults : RetryOk(i, res)
    \/ \E i \in 1..MaxChunks : TaskRaises(i)
    \/ Collect
    \/ Persist

-----------------------------------------------------------------------------
\* Units of work (session_context) of the command and payment handlers

MaxUpdates == 2      \* updates handled in one run of the model

\* the handlers: what they call first through session_context, and what follows
\*   precheckout   _precheckout_callback
\*   payment       _successful_payment_callback
\*   activate      _activate (the /activate command)
\*   start         _start with a deep link, whose result calls activate
\*   transcript    _full_transcript_callback, a generator function
Handlers == {"precheckout", "payment", "activate", "start", "transcript"}

\* ids of the invoices in the table; NoInvoice is an id no row has
Invoices == {1, 2}
NoInvoice == 3

\* uow.db: the committed rows
\*   user      the TelegramUser row of the sender exists
\*   token     EmailToken.active of the sender's token
\*   invoice   Invoice.status by id
\*   sub       Subscription.active of the invoice's subscription
\* uow.u: the update being handled
\*   handler         which handler runs
\*   pc              its position
\*   token_ok        the token it carries equals the configured / stored one
\*   invoice_id      the invoice its payload names
\*   has_db_session  hasattr(context, "db_session")
\*   session         state of context.db_session: none, open, closed
\*   pending         writes made through the session, not committed
\*   accesses        reads and writes made so far: by which operation, and
\*                   whether the session was open at that moment
\*   lost            writes that were dropped without commit
\*   err             exception that left the handler
\*   answer          what the handler told the payment provider
NewUpdate ==
    [handler |-> None, pc |-> "idle", token_ok |-> TRUE, invoice_id |-> NoInvoice,
     has_db_session |-> FALSE, session |-> "none", pending |-> {}, accesses |-> {},
     lost |-> {}, err |-> None, answer |-> None]

InitUow ==
    uow = [db |-> [user |-> FALSE, token |-> FALSE,
                   invoice |-> [i \in Invoices |-> "draft"],
                   sub |-> [i \in Invoices |-> FALSE]],
           n |-> 0,
           u |-> NewUpdate]

\* a read or write made through context.db_session by operation op
Access(u, op) ==
    [u EXCEPT !.accesses = @ \cup {[op |-> op, open |-> u.session = "open"]}]

\* a write made through context.db_session by operation op
Write(u, op, w) == [Access(u, op) EXCEPT !.pending = @ \cup {w}]

\* Session.begin() leaving its block normally: the pending writes are committed
CommitWrites(db, pending) ==
    [user |-> db.user \/ <<"user">> \in pending,
     token |-> db.token \/ <<"token">> \in pending,
     invoice |-> [i \in Invoices |->
                    IF <<"invoice", i, "paid">> \in pending THEN "paid"
                    ELSE IF <<"invoice", i, "canceled">> \in pending THEN "canceled"
                    ELSE db.invoice[i]],
     sub |-> [i \in Invoices |-> db.sub[i] \/ <<"sub", i>> \in pending]]

\* ensure_chat: get the TelegramUser, add it when it is missing
ensure_chat(u, op) ==
    IF uow.db.user \/ <<"user">> \in u.pending
    THEN Access(u, op)
    ELSE Write(u, op, <<"user">>)

\* check_payment_payload: on a foreign token cancel the invoice, if there is
\* one, and raise
check_payment_payload(u, op) ==
    IF u.token_ok THEN [u EXCEPT !.pc = "checked"]
    ELSE [(IF u.invoice_id \in Invoices
           THEN Write(u, op, <<"invoice", u.invoice_id, "canceled">>)
           ELSE Access(u, op))
          EXCEPT !.pc = "raising", !.err = "ValueError"]

\* the dispatcher hands an update and a fresh context to its handler
ReceiveUpdate(handler, token_ok, invoice_id) ==
    /\ uow.u.pc \in {"idle", "done", "failed"}
    /\ uow.n < MaxUpdates
    /\ handler \in {"precheckout", "payment"} \/ invoice_id = NoInvoice
    /\ uow' = [uow EXCEPT !.n = @ + 1,
                          !.u = [NewUpdate EXCEPT !.handler = handler, !.pc = "wrapper",
                                                  !.token_ok = token_ok,
                                                  !.invoice_id = invoice_id]]
    /\ UNCHANGED nonUow

\* session_context.wrapper of the handler's first decorated operation: the
\* context has no db_session, so Session.begin() opens one
OpenSession ==
    /\ uow.u.pc = "wrapper"
    /\ ~uow.u.has_db_session
    /\ uow' = [uow EXCEPT !.u.has_db_session = TRUE, !.u.session = "open",
                          !.u.pc = "body"]
    /\ UNCHANGED nonUow

\* _precheckout_callback
PrecheckoutBody ==
    /\ uow.u.pc = "body" /\ uow.u.handler = "precheckout"
    /\ uow' = [uow EXCEPT !.u =
                  LET c == check_payment_payload(uow.u, "_precheckout_callback") IN
                  IF c.pc = "checked" THEN [c EXCEPT !.pc = "returning"] ELSE c]
    /\ UNCHANGED nonUow

\* _successful_payment_callback
PaymentBody ==
    /\ uow.u.pc = "body" /\ uow.u.handler = "payment"
    /\ uow' = [uow EXCEPT !.u =
                  LET op == "_successful_payment_callback"
                      c == check_payment_payload(ensure_chat(uow.u, op), op) IN
                  IF c.pc # "checked" THEN c
                  ELSE IF c.invoice_id \notin Invoices
                  THEN [Access(c, op) EXCEPT !.pc = "raising", !.err = "ValueError"]
                  ELSE [Write(Write(c, op, <<"invoice", c.invoice_id, "paid">>),
                              op, <<"sub", c.invoice_id>>)
                        EXCEPT !.pc = "returning"]]
    /\ UNCHANGED nonUow

\* _activate: token.active = True for the sender's own token
ActivateOn(u) ==
    LET c == ensure_chat(u, "_activate") IN
    IF c.token_ok THEN Write(c, "_activate", <<"token">>) ELSE Access(c, "_activate")

ActivateBody ==
    /\ uow.u.pc = "body" /\ uow.u.handler = "activate"
    /\ uow' = [uow EXCEPT !.u = [ActivateOn(uow.u) EXCEPT !.pc = "returning"]]
    /\ UNCHANGED nonUow

\* _start with a deep link: ensure_chat, then the lambda calling activate
StartBody ==
    /\ uow.u.pc = "body" /\ uow.u.handler = "start"
    /\ uow' = [uow EXCEPT !.u = [ensure_chat(uow.u, "_start") EXCEPT !.pc = "returning"]]
    /\ UNCHANGED nonUow

\* _full_transcript_callback is a generator function: the call returns the
\* generator object and runs nothing of the body
TranscriptCall ==
    /\ uow.u.pc = "body" /\ uow.u.handler = "transcript"
    /\ uow' = [uow EXCEPT !.u.pc = "returning"]
    /\ UNCHANGED nonUow

\* the with block of the wrapper ends normally: commit, close.  The context
\* keeps its db_session attribute.
ExitCommit ==
    /\ uow.u.pc = "returning"
    /\ uow' = [uow EXCEPT !.db = CommitWrites(uow.db, uow.u.pending),
                          !.u.pending = {},
                          !.u.session = "closed",
                          !.u.pc = IF uow.u.handler \in {"start", "transcript"}
                                   THEN "later" ELSE "done",
                          !.u.answer = IF uow.u.handler = "precheckout"
                                       THEN "ok" ELSE uow.u.answer]
    /\ UNCHANGED nonUow

\* the with block of the wrapper ends by an exception: rollback, close; the
\* precheckout handler answers ok=False and re-raises
ExitRollback ==
    /\ uow.u.pc = "raising"
    /\ uow' = [uow EXCEPT !.u.lost = @ \cup uow.u.pending,
                          !.u.pending = {},
                          !.u.session = "closed",
                          !.u.pc = "failed",
                          !.u.answer = IF uow.u.handler = "precheckout"
                                       THEN "not ok" ELSE uow.u.answer]
    /\ UNCHANGED nonUow

\* start: await result() calls activate, whose _activate goes through the
\* wrapper with the context _start used: hasattr(context, "db_session") holds,
\* the function runs on that session and nothing commits afterwards
ActivateLater ==
    /\ uow.u.pc = "later" /\ uow.u.handler = "start"
    /\ uow.u.has_db_session
    /\ uow' = [uow EXCEPT !.u =
                  LET c == ActivateOn(uow.u) IN
                  [c EXCEPT !.lost = @ \cup c.pending, !.pending = {}, !.pc = "done"]]
    /\ UNCHANGED nonUow

\* full_transcript_callback iterates the generator: the body runs now
GeneratorBody ==
    /\ uow.u.pc = "later" /\ uow.u.handler = "transcript"
    /\ uow' = [uow EXCEPT !.u =
                  [Access(uow.u, "_full_transcript_callback") EXCEPT !.pc = "done"]]
    /\ UNCHANGED nonUow

NextUow ==
    \/ \E handler \in Handlers, token_ok \in BOOLEAN, invoice_id \in Invoices \cup {NoInvoice} :
          ReceiveUpdate(handler, token_ok, invoice_id)
    \/ OpenSession
    \/ PrecheckoutBody
    \/ PaymentBody
    \/ ActivateBody
    \/ StartBody
    \/ TranscriptCall
    \/ ExitCommit
    \/ ExitRollback
    \/ ActivateLater
    \/ GeneratorBody

-----------------------------------------------------------------------------
\* get_silent_segments: the loop over the lines of the silencedetect output

MaxDetected == 3     \* silences ffmpeg reports in one output

\* the kinds of line, by the pattern that matches them
\*   banner   text before the Duration line, matched by no pattern
\*   header   matched by HEADER_PATTERN
\*   start    matched by SILENCE_START_PATTERN, t the number it carries
\*   end      matched by SILENCE_END_PATTERN, t the number it carries
\*   other    any later line matched by no pattern (progress, summary)
Line(kind, t) == [kind |-> kind, t |-> t]

\* time stamps of the k-th silence
StartOf(k) == 10 * k
EndOf(k) == 10 * k + 5

\* the lines of silences k..n; inner[k] puts a line between the start and the end
\* line of silence k, after[k] puts one behind its end line
RECURSIVE SilenceLines(_, _, _, _)
SilenceLines(k, n, inner, after) ==
    IF k > n THEN <<>>
    ELSE <<Line("start", StartOf(k))>>
         \o (IF inner[k] THEN <<Line("other", 0)>> ELSE <<>>)
         \o <<Line("end", EndOf(k))>>
         \o (IF after[k] THEN <<Line("other", 0)>> ELSE <<>>)
         \o SilenceLines(k + 1, n, inner, after)

\* what ffmpeg can write to stderr: banner, header, the silences in the order
\* of the recording with start and end lines alternating, the summary line
Outputs ==
    UNION {{<<Line("banner", 0), Line("header", 0)>>
              \o SilenceLines(1, n, inner, after)
              \o <<Line("other", 0)>> :
                inner \in [1..n -> BOOLEAN], after \in [1..n -> BOOLEAN]} :
           n \in 0..MaxDetected}

InitParse ==
    parse = [pc |-> "idle", lines |-> <<>>, i |-> 1, min_silence_len |-> DefaultMinSilenceLen,
             min_splits |-> DefaultMinSplits, found_header |-> FALSE,
             found_start |-> FALSE, start |-> 0, silent_segments |-> <<>>, runs |-> 0]

\* the locals of a call that starts reading the output
Reading(output, silence_len, splits, runs) ==
    [pc |-> "loop", lines |-> output, i |-> 1, min_silence_len |-> silence_len,
     min_splits |-> splits, found_header |-> FALSE, found_start |-> FALSE,
     start |-> 0, silent_segments |-> <<>>, runs |-> runs]

\* get_silent_segments is called; ffmpeg ends with return code 0
RunFfmpeg(output, splits) ==
    /\ parse.pc = "idle"
    /\ parse' = Reading(output, DefaultMinSilenceLen, splits, 1)
    /\ UNCHANGED nonParse

\* ffmpeg ends with another return code
FfmpegFails ==
    /\ parse.pc = "idle"
    /\ parse' = [parse EXCEPT !.pc = "failed"]
    /\ UNCHANGED nonParse

\* the pair (line1, line2) the loop is at
HasPair == parse.pc = "loop" /\ parse.i < Len(parse.lines)
line1 == parse.lines[parse.i]
line2 == parse.lines[parse.i + 1]

\* no header found yet and line1 is not the header: continue
SkipLine ==
    /\ HasPair
    /\ ~parse.found_header /\ line1.kind # "header"
    /\ parse' = [parse EXCEPT !.i = @ + 1]
    /\ UNCHANGED nonParse

\* the header has been found, now or before
HeaderKnown == parse.found_header \/ line1.kind = "header"

\* line1 is a silence_start and no start is open
FoundStart ==
    /\ HasPair /\ HeaderKnown
    /\ line1.kind = "start" /\ ~parse.found_start
    /\ parse' = [parse EXCEPT !.i = @ + 1, !.found_header = TRUE,
                              !.start = line1.t, !.found_start = TRUE]
    /\ UNCHANGED nonParse

\* otherwise, a start is open and line2 is a silence_end
FoundEnd ==
    /\ HasPair /\ HeaderKnown
    /\ ~(line1.kind = "start" /\ ~parse.found_start)
    /\ parse.found_start /\ line2.kind = "end"
    /\ parse' = [parse EXCEPT !.i = @ + 1, !.found_header = TRUE,
                              !.silent_segments = Append(@, <<parse.start, line2.t>>),
                              !.found_start = FALSE]
    /\ UNCHANGED nonParse

\* neither branch
NoMatch ==
    /\ HasPair /\ HeaderKnown
    /\ ~(line1.kind = "start" /\ ~parse.found_start)
    /\ ~(parse.found_start /\ line2.kind = "end")
    /\ parse' = [parse EXCEPT !.i = @ + 1, !.found_header = TRUE]
    /\ UNCHANGED nonParse

\* the loop is over
LoopDone == parse.pc = "loop" /\ parse.i >= Len(parse.lines)

\* too few segments for the splits wanted, and the silence length divides by ten
TooFew ==
    /\ Len(parse.silent_segments) < parse.min_splits - 1
    /\ parse.min_silence_len % 10 = 0

\* the recursive call: a tenth of the silence length, min_splits at its default
RetryShorter(output) ==
    /\ LoopDone /\ TooFew
    /\ parse' = Reading(output, parse.min_silence_len \div 10, DefaultMinSplits,
                        parse.runs + 1)
    /\ UNCHANGED nonParse

ReturnSegments ==
    /\ LoopDone /\ ~TooFew
    /\ parse' = [parse EXCEPT !.pc = "returned"]
    /\ UNCHANGED nonParse

NextParse ==
    \/ \E output \in Outputs, ms \in {DefaultMinSplits, DefaultMinSplits + 1} :
          RunFfmpeg(output, ms)
    \/ FfmpegFails
    \/ SkipLine
    \/ FoundStart
    \/ FoundEnd
    \/ NoMatch
    \/ \E output \in Outputs : RetryShorter(output)
    \/ ReturnSegments

-----------------------------------------------------------------------------
\* get_summary_msg: naming, downloading and renaming the media file

\* a file name or path inside the temporary directory: stem and suffix, the
\* suffix without its dot and "" when there is none
PathOf(stem, suffix) == [stem |-> stem, suffix |-> suffix]

\* the media classes; Voice and VideoNote have no file_name attribute,
\* VideoNote has no mime_type either
MediaKinds == {"voice", "audio", "document", "video", "video_note"}
HasFileName(kind) == kind \in {"audio", "document", "video"}
HasMimeType(kind) == kind # "video_note"

\* file names a sender can give: none, one without and two with a suffix
FileNames == {None, "rec", "rec.mp3", "rec.mov"}

\* Path(file_name).suffix
SuffixOfName(file_name) ==
    CASE file_name = "rec.mp3" -> "mp3"
      [] file_name = "rec.mov" -> "mov"
      [] OTHER -> ""

\* mime types Telegram can declare, and those magic.from_file can find
MimeTypes == {None, "audio/ogg", "audio/mpeg"}
SniffedMimeTypes == {"audio/ogg", "audio/mpeg", "video/mp4"}

\* the part of a mime type behind the slash
Subtype(mime) ==
    CASE mime = "audio/ogg" -> "ogg"
      [] mime = "audio/mpeg" -> "mpeg"
      [] mime = "video/mp4" -> "mp4"

\* Media.file_unique_id
FileUniqueId == "uid"

\* _extract_file_name
extract_file_name(media) ==
    IF HasFileName(media.kind) /\ media.file_name # None
    THEN PathOf(FileUniqueId, SuffixOfName(media.file_name))
    ELSE IF HasMimeType(media.kind) /\ media.mime_type # None
    THEN PathOf(FileUniqueId, Subtype(media.mime_type))
    ELSE PathOf(FileUniqueId, "")

\* Path.with_suffix
WithSuffix(path, suffix) == PathOf(path.stem, suffix)

\* Path.rename: the file is at the new path afterwards
Rename(disk, from, to) == (disk \ {from}) \cup {to}

InitDl ==
    dl = [pc |-> "idle", media |-> [kind |-> "voice", file_name |-> None,
                                    mime_type |-> None, large |-> FALSE],
          file_name |-> PathOf("", ""), file_path |-> PathOf("", ""), disk |-> {},
          sniffed |-> None, opened |-> PathOf("", ""), err |-> None]

\* a message with media arrives for which no transcript is stored
ReceiveMedia(kind, file_name, mime_type, large) ==
    /\ dl.pc = "idle"
    /\ HasFileName(kind) \/ file_name = None
    /\ HasMimeType(kind) \/ mime_type = None
    /\ dl' = [dl EXCEPT !.pc = "received",
                        !.media = [kind |-> kind, file_name |-> file_name,
                                   mime_type |-> mime_type, large |-> large]]
    /\ UNCHANGED nonDl

\* file_name = _extract_file_name(...); file_path = tempdir_path / file_name
ExtractFileName ==
    /\ dl.pc = "received"
    /\ dl' = [dl EXCEPT !.pc = "download",
                        !.file_name = extract_file_name(dl.media),
                        !.file_path = extract_file_name(dl.media)]
    /\ UNCHANGED nonDl

\* file_size > 20 MiB: download_large_file writes to file_path
DownloadLarge ==
    /\ dl.pc = "download" /\ dl.media.large
    /\ dl' = [dl EXCEPT !.pc = "downloaded", !.disk = {dl.file_path}]
    /\ UNCHANGED nonDl

\* otherwise get_file and download_to_drive(file_path)
DownloadToDrive ==
    /\ dl.pc = "download" /\ ~dl.media.large
    /\ dl' = [dl EXCEPT !.pc = "downloaded", !.disk = {dl.file_path}]
    /\ UNCHANGED nonDl

\* the download raises
DownloadRaises ==
    /\ dl.pc = "download"
    /\ dl' = [dl EXCEPT !.pc = "failed", !.err = "download"]
    /\ UNCHANGED nonDl

\* the name has a suffix: nothing to do
KeepName ==
    /\ dl.pc = "downloaded"
    /\ dl.file_name.suffix # ""
    /\ dl' = [dl EXCEPT !.pc = "transcribe"]
    /\ UNCHANGED nonDl

\* the name has no suffix: sniff the mime type and rename the file on disk.
\* The local file_path is not assigned.
SniffAndRename(mime) ==
    /\ dl.pc = "downloaded"
    /\ dl.file_name.suffix = ""
    /\ dl' = [dl EXCEPT !.pc = "transcribe",
                        !.sniffed = mime,
                        !.disk = Rename(dl.disk, dl.file_path,
                                        WithSuffix(dl.file_path, Subtype(mime)))]
    /\ UNCHANGED nonDl

\* transcribe_file(update, context, file_path, ...): open(file_path, "rb")
OpenOk ==
    /\ dl.pc = "transcribe"
    /\ dl.file_path \in dl.disk
    /\ dl' = [dl EXCEPT !.pc = "opened", !.opened = dl.file_path]
    /\ UNCHANGED nonDl

OpenFails ==
    /\ dl.pc = "transcribe"
    /\ dl.file_path \notin dl.disk
    /\ dl' = [dl EXCEPT !.pc = "failed", !.opened = dl.file_path,
                        !.err = "FileNotFoundError"]
    /\ UNCHANGED nonDl

NextDl ==
    \/ \E kind \in MediaKinds, file_name \in FileNames, mime_type \in MimeTypes,
          large \in BOOLEAN : ReceiveMedia(kind, file_name, mime_type, large)
    \/ ExtractFileName
    \/ DownloadLarge
    \/ DownloadToDrive
    \/ DownloadRaises
    \/ KeepName
    \/ \E mime \in SniffedMimeTypes : SniffAndRename(mime)
    \/ OpenOk
    \/ OpenFails

-----------------------------------------------------------------------------
\* The event loop and the ffmpeg subprocesses

MaxTasks == 2        \* coroutines on the event loop
MaxPolls == 2        \* rounds of the poll-and-sleep loop for one subprocess

Tasks == 1..MaxTasks

\* the steps of a coroutine that matter here: awaits of network calls, and the
\* three functions that run ffmpeg
Awaits == {"await download", "await whisper"}
Subprocesses == {"transcode", "silencedetect", "split"}

\* the ways through transcribe_file and get_whisper_transcription
Programs ==
    {<<"await download", "await whisper">>,
     <<"await download", "transcode", "await whisper">>,
     <<"await download", "silencedetect", "split", "await whisper">>,
     <<"await download", "await whisper", "transcode", "await whisper">>}

\* loop.tasks[t]: pc is new, ready, running (it holds the thread), subprocess
\* (it holds the thread inside one of the ffmpeg functions), awaiting, done
\* or failed; prog its steps and i the step it is at
\* loop.current: the task that holds the thread, 0 when the loop itself does
\* loop.proc: the subprocess: none, running or exited, and its return code
InitLoop ==
    loop = [tasks |-> [t \in Tasks |-> [pc |-> "new", prog |-> <<>>, i |-> 1]],
            current |-> 0,
            proc |-> [state |-> "none", returncode |-> 0],
            polls |-> 0]

\* the step task t is at
OpOf(t) ==
    IF loop.tasks[t].i <= Len(loop.tasks[t].prog)
    THEN loop.tasks[t].prog[loop.tasks[t].i] ELSE None

\* a coroutine is created
Spawn(t, prog) ==
    /\ loop.tasks[t].pc = "new"
    /\ loop' = [loop EXCEPT !.tasks[t] = [pc |-> "ready", prog |-> prog, i |-> 1]]
    /\ UNCHANGED nonLoop

\* the loop resumes a ready coroutine: only when no coroutine holds the thread
Resume(t) ==
    /\ loop.current = 0
    /\ loop.tasks[t].pc = "ready"
    /\ loop' = [loop EXCEPT !.current = t, !.tasks[t].pc = "running"]
    /\ UNCHANGED nonLoop

\* the coroutine reaches an await of a network call and gives the thread back
Await(t) ==
    /\ loop.current = t /\ loop.tasks[t].pc = "running"
    /\ OpOf(t) \in Awaits
    /\ loop' = [loop EXCEPT !.current = 0, !.tasks[t].pc = "awaiting"]
    /\ UNCHANGED nonLoop

\* the network call is answered
IoCompletes(t) ==
    /\ loop.tasks[t].pc = "awaiting"
    /\ loop' = [loop EXCEPT !.tasks[t].pc = "ready", !.tasks[t].i = @ + 1]
    /\ UNCHANGED nonLoop

\* subprocess.Popen inside transcode_ffmpeg, get_silent_segments or
\* split_audio_ffmpeg, called as plain functions
Popen(t) ==
    /\ loop.current = t /\ loop.tasks[t].pc = "running"
    /\ OpOf(t) \in Subprocesses
    /\ loop' = [loop EXCEPT !.tasks[t].pc = "subprocess",
                            !.proc = [state |-> "running", returncode |-> 0],
                            !.polls = 0]
    /\ UNCHANGED nonLoop

\* while process.poll() is None: time.sleep(1)
SleepPoll(t) ==
    /\ loop.current = t /\ loop.tasks[t].pc = "subprocess"
    /\ OpOf(t) \in {"transcode", "split"}
    /\ loop.proc.state = "running"
    /\ loop.polls < MaxPolls
    /\ loop' = [loop EXCEPT !.polls = @ + 1]
    /\ UNCHANGED nonLoop

\* ffmpeg ends
ProcessExits(returncode) ==
    /\ loop.proc.state = "running"
    /\ loop' = [loop EXCEPT !.proc = [state |-> "exited", returncode |-> returncode]]
    /\ UNCHANGED nonLoop

\* process.communicate() returns; a return code other than 0 raises
Communicate(t) ==
    /\ loop.current = t /\ loop.tasks[t].pc = "subprocess"
    /\ loop.proc.state = "exited"
    /\ loop' = IF loop.proc.returncode = 0
               THEN [loop EXCEPT !.tasks[t].pc = "running", !.tasks[t].i = @ + 1,
                                 !.proc = [state |-> "none", returncode |-> 0],
                                 !.polls = 0]
               ELSE [loop EXCEPT !.tasks[t].pc = "failed", !.current = 0,
                                 !.proc = [state |-> "none", returncode |-> 0],
                                 !.polls = 0]
    /\ UNCHANGED nonLoop

\* the coroutine returns
Return(t) ==
    /\ loop.current = t /\ loop.tasks[t].pc = "running"
    /\ OpOf(t) = None
    /\ loop' = [loop EXCEPT !.current = 0, !.tasks[t].pc = "done"]
    /\ UNCHANGED nonLoop

NextLoop ==
    \/ \E t \in Tasks, prog \in Programs : Spawn(t, prog)
    \/ \E t \in Tasks : Resume(t)
    \/ \E t \in Tasks : Await(t)
    \/ \E t \in Tasks : IoCompletes(t)
    \/ \E t \in Tasks : Popen(t)
    \/ \E t \in Tasks : SleepPoll(t)
    \/ \E returncode \in {0, 1} : ProcessExits(returncode)
    \/ \E t \in Tasks : Communicate(t)
    \/ \E t \in Tasks : Return(t)

-----------------------------------------------------------------------------
InitAll ==
    /\ InitPipe /\ InitTr /\ InitSplit /\ InitWh
    /\ InitUow /\ InitParse /\ InitDl /\ InitLoop

Spec == InitAll /\ [][NextPipe]_vars

SpecTranslate == InitAll /\ [][NextTr]_vars

SpecSplit == InitAll /\ [][NextSplit]_vars

SpecWhisper == InitAll /\ [][NextWh]_vars

SpecUow == InitAll /\ [][NextUow]_vars

SpecParse == InitAll /\ [][NextParse]_vars

SpecDl == InitAll /\ [][NextDl]_vars

SpecLoop == InitAll /\ [][NextLoop]_vars

-----------------------------------------------------------------------------
\* Properties of the transcript and summarization stages

Past(r) == req[r].pc \in {"summarize", "llm", "respond", "done"}

\* r2 started after r1 had stored the same bytes under another handle
RanAfter(r1, r2) ==
    /\ r1 # r2
    /\ hist[r1].created # 0
    /\ hist[r1].created \in hist[r2].snap
    /\ req[r2].handle # req[r1].handle
    /\ FileOf(req[r2].handle) = FileOf(req[r1].handle)

\* C1: when the transcript stage runs a second time on byte-identical media
\* under another handle id, the second run returns the Transcript the first
\* run created (found by its SHA-256 hash), inserts no row, and the
\* transcription service ran once over both runs.
C1_SecondRunReusesTranscript ==
    \A r1 \in Req, r2 \in Req :
        RanAfter(r1, r2) =>
            /\ hist[r2].created = 0
            /\ hist[r1].whisperCalls + hist[r2].whisperCalls <= 1
            /\ Past(r2) => /\ req[r2].transcript = hist[r1].created
                           /\ hist[r2].hashLookup = "hit"
            /\ Cardinality({t \in transcripts :
                              t.sha256_hash = Sha256File(FileOf(req[r2].handle))}) = 1

C1_Witness ==
    \E r1 \in Req, r2 \in Req :
        /\ RanAfter(r1, r2)
        /\ req[r2].pc = "done"
        /\ hist[r2].hashLookup = "hit"
        /\ req[r2].transcript = hist[r1].created

\* the committed Summary rows of the transcript a request holds
Memoized(r) == {s \in summaries : s.transcript_id = req[r].transcript}

\* C2: _summarize on a Transcript that already has a Summary returns that
\* Summary, makes no model call and leaves the Summary rows as they are,
\* however often it is repeated.
C2_SummarizeIsMemoized ==
    /\ [][\A r \in Req :
            (/\ req[r].pc = "summarize"
             /\ req'[r].pc # "summarize"
             /\ Memoized(r) # {})
            => /\ req'[r].pc = "respond"
               /\ req'[r].summary \in {s.id : s \in Memoized(r)}
               /\ hist'[r].responses = <<>>
               /\ req'[r].pendingSummary = {}
               /\ summaries' = summaries
               /\ nextSid' = nextSid]_vars
    /\ [](\A r \in Req :
            (req[r].pc \in {"respond", "done"} /\ hist[r].responses = <<>>)
            => /\ req[r].summary \in {s.id : s \in Memoized(r)}
               /\ req[r].pendingSummary = {})

C2_Witness ==
    \E r \in Req :
        /\ req[r].pc = "done"
        /\ hist[r].responses = <<>>
        /\ req[r].summary \in {s.id : s \in Memoized(r)}

C5_LoserReturnsWinnersRow ==
    \A r \in Req :
        /\ req[r].err # "IntegrityError"
        /\ hist[r].created = 0 /\ Past(r) =>
              \E t \in transcripts :
                  /\ t.id = req[r].transcript
                  /\ t.sha256_hash = Sha256File(FileOf(req[r].handle))

\* C6: a Transcript has at most one Summary in every reachable state, also
\* when two requests summarize it concurrently.
C6_AtMostOneSummary ==
    \A t \in transcripts :
        Cardinality({s \in summaries : s.transcript_id = t.id}) <= 1

\* C7: no two persisted Transcripts share a content hash or a handle id, and
\* a request makes no transcoding or transcription call unless its hash lookup
\* was made before and missed.
C7_FingerprintUnique ==
    /\ \A t \in transcripts, u \in transcripts :
          t # u => /\ t.sha256_hash # u.sha256_hash
                   /\ t.file_unique_id # u.file_unique_id
    /\ \A r \in Req :
          (hist[r].transcodeCalls > 0 \/ hist[r].whisperCalls > 0)
          => hist[r].hashLookup = "miss"
    /\ \A r \in Req :
          hist[r].hashLookup = "hit" =>
              /\ hist[r].transcodeCalls = 0
              /\ hist[r].whisperCalls = 0
              /\ hist[r].created = 0

C7_Witness ==
    \E r1 \in Req, r2 \in Req :
        /\ req[r1].err = "IntegrityError"
        /\ hist[r1].whisperCalls = 1
        /\ hist[r2].created # 0
        /\ Cardinality(transcripts) = 1

\* C14: a transcription whose concatenated text is empty persists no
\* Transcript; the request ends with EmptyTranscription.
C14_EmptyTextNotPersisted ==
    /\ \A t \in transcripts : t.result # <<>>
    /\ \A r \in Req :
          (req[r].pc = "failed" /\ hist[r].whisperCalls > 0 /\ hist[r].created = 0
             /\ req[r].err \notin {"BadRequestError", "IntegrityError"})
          => req[r].err = "EmptyTranscription"

\* the committed rows a request could find when it started
KnownHandle(r) ==
    {t \in transcripts : t.id \in hist[r].snap /\ t.file_unique_id = req[r].handle}
KnownBytes(r) ==
    {t \in transcripts :
        t.id \in hist[r].snap /\ t.sha256_hash = Sha256File(FileOf(req[r].handle))}

\* C15: a request whose handle id is in the index makes no download, no
\* hashing, no transcoding and no transcription call; a request whose bytes
\* are in the hash index makes no transcoding and no transcription call; on
\* either hit no Transcript row is created or modified; transcoding and
\* transcription are reached only after both lookups missed.
C15_IndexesBeforeWork ==
    /\ [](\A r \in Req :
            /\ (req[r].pc # "idle" /\ KnownHandle(r) # {}) =>
                  /\ hist[r].downloads = 0
                  /\ hist[r].hashLookup = "none"
                  /\ hist[r].transcodeCalls = 0
                  /\ hist[r].whisperCalls = 0
                  /\ hist[r].created = 0
                  /\ Past(r) => req[r].transcript \in {t.id : t \in KnownHandle(r)}
            /\ (req[r].pc # "idle" /\ (KnownBytes(r) # {} \/ hist[r].hashLookup = "hit")) =>
                  /\ hist[r].transcodeCalls = 0
                  /\ hist[r].whisperCalls = 0
                  /\ hist[r].created = 0
            /\ (hist[r].transcodeCalls > 0 \/ hist[r].whisperCalls > 0
                   \/ req[r].pc \in {"transcode", "whisper", "awaitWhisper", "insert"}) =>
                  /\ hist[r].downloads = 1
                  /\ hist[r].hashLookup = "miss")
    /\ [][\A r \in Req :
            (/\ req[r].pc \in {"idle", "done", "failed", "hash"}
             /\ req'[r].pc = "summarize")
            => /\ transcripts' = transcripts
               /\ nextTid' = nextTid
               /\ \E t \in transcripts : t.id = req'[r].transcript]_vars

C15_Witness ==
    \E r1 \in Req, r2 \in Req :
        /\ r1 # r2
        /\ hist[r1].created # 0
        /\ hist[r1].downloads = 1 /\ hist[r1].hashLookup = "miss"
        /\ req[r2].pc = "done" /\ KnownHandle(r2) # {} /\ hist[r2].downloads = 0
        /\ req[r2].transcript = hist[r1].created

\* C18: while retry budget remains, a model response that fails to parse or
\* lacks the expected fields is followed by a retry, and the conversation of
\* the retry is the system and user messages, the failed assistant turn and
\* one corrective user instruction.
C18_SchemaFailureRetried ==
    \A r \in Req :
        /\ (Len(hist[r].responses) >= 1
               /\ hist[r].responses[1] \in {"badjson", "badschema"}) =>
              \/ Len(hist[r].responses) = 2
              \/ /\ req[r].pc = "llm"
                 /\ req[r].n_retry = 2
        /\ (req[r].pc = "llm" /\ req[r].n_retry = 2) =>
              req[r].messages = <<"system", "user", "assistant", "corrective">>

\* r inserted a Transcript and then failed in _summarize
SummarizeFailed(r) ==
    /\ req[r].pc = "failed"
    /\ req[r].err \in {"JSONDecodeError", "KeyError"}
    /\ hist[r].created # 0

\* r2 started for the handle of r1 after r1 had inserted its Transcript
RetryOf(r1, r2) ==
    /\ r1 # r2
    /\ req[r2].pc # "idle"
    /\ hist[r1].created \in hist[r2].snap
    /\ req[r2].handle = req[r1].handle

\* C24: when a request's transcription succeeds and its summarization fails,
\* the Transcript stays persisted and the failed request leaves no Summary; a
\* later request for the same handle reuses the Transcript without download
\* or transcription call, summarizes again, and its commit leaves exactly one
\* Summary for the Transcript.
C24_RetryAfterFailedSummary ==
    /\ [](\A r1 \in Req :
            SummarizeFailed(r1) =>
                /\ \E t \in transcripts : t.id = hist[r1].created
                /\ req[r1].pendingSummary = {}
                /\ req[r1].summary = 0
                /\ \A r2 \in Req :
                      RetryOf(r1, r2) =>
                          /\ hist[r2].downloads = 0
                          /\ hist[r2].whisperCalls = 0
                          /\ hist[r2].created = 0
                          /\ Past(r2) => req[r2].transcript = hist[r1].created
                          /\ (req[r2].pc \in {"respond", "done"}
                                /\ hist[r2].responses = <<>>) => Memoized(r2) # {})
    /\ [][\A r \in Req :
            /\ (req[r].pc = "llm" /\ req'[r].pc = "failed") =>
                  /\ summaries' = summaries
                  /\ transcripts' = transcripts
            /\ (req[r].pc = "respond" /\ req'[r].pc = "done"
                   /\ Len(hist[r].responses) > 0 /\ Memoized(r) = {}) =>
                  Cardinality({s \in summaries' : s.transcript_id = req[r].transcript}) = 1]_vars

C24_Witness ==
    \E r1 \in Req, r2 \in Req :
        /\ SummarizeFailed(r1)
        /\ RetryOf(r1, r2)
        /\ req[r2].pc = "done"
        /\ hist[r2].downloads = 0
        /\ Len(hist[r2].responses) > 0
        /\ Cardinality({s \in summaries : s.transcript_id = hist[r1].created}) = 1

\* C25: the Summary _summarize creates from a model output of n topics has n
\* Topics whose order values are 1..n, the i-th topic of the output carrying
\* order i; the stored Topics keep that numbering.
C25_TopicOrderIsOneToN ==
    /\ \A r \in Req :
          (req[r].pc = "respond" /\ req[r].summary_data # {}) =>
              \E s \in req[r].pendingSummary :
                  /\ s.id = req[r].summary
                  /\ \A d \in req[r].summary_data :
                        /\ Len(s.topics) = d.ntopics
                        /\ {s.topics[i].order : i \in 1..Len(s.topics)} = 1..d.ntopics
                        /\ \A i \in 1..d.ntopics : \E j \in 1..Len(s.topics) :
                              s.topics[j].text = i /\ s.topics[j].order = i
    /\ \A s \in summaries :
          /\ {s.topics[i].order : i \in 1..Len(s.topics)} = 1..Len(s.topics)
          /\ \A i \in 1..Len(s.topics) : s.topics[i].order = s.topics[i].text

C25_Witness ==
    /\ \E r \in Req :
          /\ req[r].pc = "respond"
          /\ \E d \in req[r].summary_data : d.ntopics = MaxTopics
    /\ \E s \in summaries : Len(s.topics) = MaxTopics

\* C26: after a successful model call the Transcript's input language, as the
\* summarizing session will commit it, is the language the model reported,
\* whether it was unknown or different before.
C26_LanguageFollowsModel ==
    \A r \in Req :
        (req[r].pc = "respond" /\ req[r].summary_data # {}) =>
            \A d \in req[r].summary_data :
                InputLanguage(r, req[r].transcript) = LanguageByTag(d.language)

-----------------------------------------------------------------------------
\* Properties of the translation cache

\* C4: after two concurrent _translate_topic calls for the same uncached
\* (topic, language) pair exactly one TopicTranslation row exists for the pair
\* and no caller ends in an error.
C4_ConcurrentTranslateOneRow ==
    /\ \A topic \in Topics, lang \in TargetLangs :
          Cardinality(TranslationsOf(translations, topic, lang)) <= 1
    /\ \A s \in Sess : sess[s].err # "MultipleResultsFound"

\* C8: over any sequence of _translate_topic calls the translation service
\* is called at most once for each (topic, language) pair.
C8_OneBilledCallPerPair ==
    \A topic \in Topics, lang \in TargetLangs : deeplCalls[<<topic, lang>>] <= 1

-----------------------------------------------------------------------------
\* Properties of the chunk planner

\* the chunks of a plan: from 0 over the split points to the end of the stream
ChunkLengths(segments, total_seconds) ==
    LET bounds == <<Rat(0, 1)>> \o segments \o <<Rat(total_seconds, 1)>>
    IN [i \in 1..(Len(bounds) - 1) |-> RatSub(bounds[i + 1], bounds[i])]

\* chunk duration x bitrate / 8 (kB) is at most the budget of MaxSizeMb
WithinBudget(length, bitrate) ==
    length[1] * bitrate <= MaxSizeMb * 1024 * 8 * length[2]

\* C9: every chunk of every plan handed to the export step, the last one
\* included, has an estimated size of at most the budget.
C9_EveryChunkWithinBudget ==
    plan.pc = "exported" =>
        \A i \in 1..(Len(plan.segments) + 1) :
            WithinBudget(ChunkLengths(plan.segments, plan.analysis.total_seconds)[i],
                         plan.analysis.bitrate)

MinChunks(st_size) ==
    (st_size + MaxSizeMb * 1024 * 1024 - 1) \div (MaxSizeMb * 1024 * 1024)

\* C19: the minimum chunk count split_audio computes is ceil(file size /
\* budget), and a silence-based plan with fewer chunks than that is replaced
\* by the even split.
C19_TooFewChunksFallsBack ==
    plan.pc = "exported" =>
        /\ plan.min_splits = BigOf(MinChunks(plan.st_size))
        /\ plan.segments # get_even_splits(plan.st_size, plan.analysis, MaxSizeMb)
              => Len(plan.segments) + 1 >= MinChunks(plan.st_size)

RatLt(a, b) == a[1] * b[2] < b[1] * a[2]
RatEq(a, b) == a[1] * b[2] = b[1] * a[2]

C21_ChunkFilesInRecordingOrder ==
    plan.pc = "exported" =>
        \A i \in 1..Len(plan.split_paths) : plan.split_paths[i] = i - 1

\* C29: get_silent_segments runs silence detection with a minimum silence
\* length of 500, 50 or 5 ms only (at most three runs), and every run applies
\* the minimum-split requirement split_audio computed for the file.
C29_RetriesKeepMinSplits ==
    plan.pc = "detect" =>
        /\ plan.call.min_silence_len \in {500, 50, 5}
        /\ plan.call.min_splits = plan.min_splits

-----------------------------------------------------------------------------
\* Properties of the transcription fan-out

\* the lines of a text: the pieces between its newline separators
RECURSIVE Lines(_, _)
Lines(text, line) ==
    IF text = <<>> THEN <<line>>
    ELSE IF Head(text) = "\n" THEN <<line>> \o Lines(Tail(text), <<>>)
    ELSE Lines(Tail(text), Append(line, Head(text)))

\* C10: whatever the order in which the transcription calls complete, the
\* returned text is the chunk texts in chunk-list order, separated by newlines.
C10_MergeInChunkOrder ==
    wh.pc = "returned" =>
        Lines(wh.result.text, <<>>) = [i \in 1..wh.n |-> wh.results[i].text]

C10_Witness ==
    /\ wh.pc = "returned"
    /\ wh.n >= 2
    /\ wh.completed[1] # 1
    /\ wh.results[1].text # wh.results[2].text

\* the per-chunk detected languages of a run, in chunk order
Votes(w) == [i \in 1..w.n |-> w.results[i].language]

\* the position at which a value first appears in a list
FirstSeen(votes, l) ==
    CHOOSE i \in 1..Len(votes) : votes[i] = l /\ \A j \in 1..(i - 1) : votes[j] # l

\* C11: the language get_whisper_transcription returns is a most frequent
\* value of the per-chunk languages taken in chunk order, and among the values
\* with the highest count it is the one that appears first in chunk order.
C11_MajorityLanguageFirstSeen ==
    wh.pc = "returned" =>
        LET votes == Votes(wh)
            chosen == wh.result.language
            count(l) == Cardinality({i \in 1..Len(votes) : votes[i] = l})
        IN /\ \E i \in 1..Len(votes) : votes[i] = chosen
           /\ \A i \in 1..Len(votes) :
                 /\ count(votes[i]) <= count(chosen)
                 /\ count(votes[i]) = count(chosen) =>
                       FirstSeen(votes, chosen) <= FirstSeen(votes, votes[i])
           /\ votes = <<"english", "english", "german">> => chosen = "english"
           /\ votes = <<"english", "german">> => chosen = "english"
           /\ votes = <<"german", "english">> => chosen = "german"

C11_Witness ==
    /\ wh.pc = "returned"
    /\ Votes(wh) = <<"german", "english">>
    /\ wh.result.language = "german"

\* C13: for a normalized file of at most 24 MiB get_whisper_transcription
\* runs no silence detection and no split, and creates exactly one
\* transcription task, for the whole file.
C13_SmallFileSingleChunk ==
    (wh.pc # "idle" /\ wh.st_size <= 24 * 1024 * 1024) =>
        /\ ~wh.split
        /\ wh.n = 1
        /\ DOMAIN wh.task = {1}
        /\ wh.pc # "failed" \/ wh.err = "ExceptionGroup"

C13_Witness ==
    /\ wh.pc = "persisted"
    /\ wh.st_size = 24 * 1024 * 1024
    /\ ~wh.split
    /\ wh.n = 1

\* C16: every chunk whose transcription call failed was retried exactly once
\* (2 provider calls for that chunk, at most 2 for any chunk), and a failed
\* batch persists no Transcript.
C16_EveryFailedCallRetried ==
    wh.pc # "idle" =>
        /\ \A i \in 1..wh.n :
              /\ wh.calls[i] <= 2
              /\ wh.task[i] = "failed" => wh.calls[i] = 2
        /\ wh.pc = "failed" => wh.persisted = {}

\* C17: when a chunk's task fails, every sibling that has not finished is
\* cancelled, the failure leaves get_whisper_transcription and
\* transcribe_file, and no Transcript is inserted for the payload.
C17_FailureCancelsSiblings ==
    /\ [][(wh.pc = "gather" /\ wh'.pc = "failed") =>
            \A j \in 1..wh.n :
                /\ wh.task[j] = "done" => wh'.task[j] = "done"
                /\ wh.task[j] \in {"running", "retry"} =>
                      wh'.task[j] \in {"failed", "cancelled"}]_vars
    /\ []((wh.pc = "failed" /\ wh.n > 0) =>
            /\ Cardinality({i \in 1..wh.n : wh.task[i] = "failed"}) = 1
            /\ \A i \in 1..wh.n : wh.task[i] \in {"failed", "cancelled", "done"}
            /\ wh.err = "ExceptionGroup"
            /\ wh.result = None
            /\ wh.persisted = {})

C17_Witness ==
    /\ wh.pc = "failed"
    /\ wh.n = 3
    /\ \E i \in 1..3, j \in 1..3, k \in 1..3 :
          /\ wh.task[i] = "failed"
          /\ wh.task[j] = "cancelled"
          /\ wh.task[k] = "done"
    /\ wh.persisted = {}

-----------------------------------------------------------------------------
\* Properties of the units of work

\* C23: every read or write of a decorated operation is made while the
\* session is open, and a handler that ends normally has lost no write.
C23_AccessInsideOpenSession ==
    /\ \A a \in uow.u.accesses : a.open
    /\ (uow.u.pc = "done" /\ uow.u.err = None) => uow.u.lost = {}

\* C30: when a precheckout or payment update with a foreign token names an
\* existing invoice, the handler ends with an error, the invoice is stored
\* as canceled and its subscription is not active.
C30_ForeignTokenCancelsInvoice ==
    (/\ uow.u.pc = "failed"
     /\ uow.u.handler \in {"precheckout", "payment"}
     /\ ~uow.u.token_ok
     /\ uow.u.invoice_id \in Invoices)
    => /\ uow.u.err = "ValueError"
       /\ uow.db.invoice[uow.u.invoice_id] = "canceled"
       /\ ~uow.db.sub[uow.u.invoice_id]

-----------------------------------------------------------------------------
\* Properties of the silence parser

\* the lines of one kind, in order
LinesOf(lines, kind) == SelectSeq(lines, LAMBDA l : l.kind = kind)

\* one (start, end) per silence: the k-th start with the k-th end
SilencesOf(lines) ==
    [k \in 1..Len(LinesOf(lines, "start")) |->
        <<LinesOf(lines, "start")[k].t, LinesOf(lines, "end")[k].t>>]

\* C28: for an output whose silence_start and silence_end lines alternate,
\* get_silent_segments returns exactly one (start, end) per silence, each
\* start paired with the first end after it.
C28_OneSegmentPerSilence ==
    parse.pc = "returned" => parse.silent_segments = SilencesOf(parse.lines)

-----------------------------------------------------------------------------
\* Properties of the download

\* C22: when the file name has no extension, the path transcribe_file
\* receives after the download is the renamed file: it exists and carries the
\* sniffed extension.
C22_RenamedPathIsTranscribed ==
    (dl.pc \in {"opened", "failed"} /\ dl.err # "download" /\ dl.file_name.suffix = "")
    => /\ dl.opened \in dl.disk
       /\ dl.opened.suffix = Subtype(dl.sniffed)

-----------------------------------------------------------------------------
\* Properties of the event loop

\* C27: while an ffmpeg subprocess runs, the event loop is not blocked: every
\* coroutine that is ready can be resumed.
C27_LoopFreeWhileSubprocessRuns ==
    \A t \in Tasks :
        (loop.proc.state = "running" /\ loop.tasks[t].pc = "ready")
        => ENABLED Resume(t)

====
